---- MODULE Spec2Model ----
(***************************************************************************)
(* A model of TransformerAgent (parlai/agents/transformer/transformer.py): *)
(* the agent's fields, its constructor, observe / batch_act / act,         *)
(* report, save and shutdown.  The neural model, the optimizer and the     *)
(* file system are the environment: a forward pass yields one of a few     *)
(* outcomes, a file is a path with a content.                              *)
(***************************************************************************)
EXTENDS Integers, Sequences, FiniteSets, TLC

VARIABLES
    opt,                 \* self.opt
    files,               \* the file system: path -> content
    use_cuda,            \* self.use_cuda
    batch_idx,           \* self.batch_idx
    model,               \* self.model: its parameters
    optimizer,           \* self.optimizer, None when the attribute is absent
    metrics,             \* self.metrics
    answers,             \* self.answers
    history,             \* self.history
    observation,         \* self.observation
    buffer_initialized,  \* hasattr(self, 'buffer_initialized')
    op,                  \* the last operation called
    arg,                 \* its argument
    ret,                 \* what it returned
    exc                  \* the exception it raised, "none" when it returned

vars == <<opt, files, use_cuda, batch_idx, model, optimizer, metrics,
          answers, history, observation, buffer_initialized, op, arg, ret, exc>>

----------------------------------------------------------------------------
(* Bounds of the model. *)

NumWords == 2       \* words of the vocabulary, 1..NumWords
MaxText == 2        \* longest text of an observation, in words
MaxTokens == 4      \* metrics['num_tokens'] stays within this
MaxSkipped == 1     \* metrics['total_skipped_batches'] stays within this
MaxDialog == 3      \* longest dialogue history kept, in tokens
MaxSteps == 1       \* optimizer steps taken by one agent
MaxVec == 4         \* longest vector handed to v2t, in indices
BatchSize == 2      \* opt['batchsize'], and the longest batch

----------------------------------------------------------------------------
(* Python values. *)

None == << >>
Some(v) == <<v>>
IsNone(x) == x = None
Val(x) == x[1]

\* dict.get(key, default)
Get(d, k, default) == IF k \in DOMAIN d THEN d[k] ELSE default

\* d with d[k] = v
Put(d, k, v) == (k :> v) @@ d

\* the sequence f, evaluated once
Tup(f) == f \o << >>

RECURSIVE SumSeq(_)
SumSeq(s) == IF s = << >> THEN 0 ELSE Head(s) + SumSeq(Tail(s))

Max(a, b) == IF a >= b THEN a ELSE b

\* the last n elements of s: deque(s, maxlen=n), n = None is unbounded
Deque(s, maxlen) ==
    IF IsNone(maxlen) \/ Len(s) <= Val(maxlen) THEN s
    ELSE SubSeq(s, Len(s) - Val(maxlen) + 1, Len(s))

----------------------------------------------------------------------------
(* Numbers.  A float is the exact fraction n/d in lowest terms; d = 0 is   *)
(* float('inf').  math.exp is not computed: exp(x) is the term [exp |-> x],*)
(* and rounding such a term is the term [round |-> ..].                    *)

RECURSIVE GCD(_, _)
GCD(a, b) == IF b = 0 THEN a ELSE GCD(b, a % b)

Frac(n, d) == IF n = 0 THEN [d |-> 1, n |-> 0]
              ELSE [d |-> d \div GCD(n, d), n |-> n \div GCD(n, d)]

Inf == [d |-> 0, n |-> 1]

RECURSIVE Pow10(_)
Pow10(k) == IF k = 0 THEN 1 ELSE 10 * Pow10(k - 1)

RECURSIVE Digits(_)
\* the number of decimal digits of q >= 1
Digits(q) == IF q < 10 THEN 1 ELSE 1 + Digits(q \div 10)

RECURSIVE Shifts(_, _)
\* the least k >= 1 with n * 10^k >= d, for 0 < n < d
Shifts(n, d) == IF n * 10 >= d THEN 1 ELSE 1 + Shifts(n * 10, d)

\* math.floor(math.log10(x)) for a fraction x > 0
FloorLog10(x) ==
    IF x.n >= x.d THEN Digits(x.n \div x.d) - 1 ELSE -Shifts(x.n, x.d)

\* round(a / b) to an integer, ties to even
RoundHalfEven(a, b) ==
    LET q == a \div b
        r == a % b
    IN  IF 2 * r < b THEN q
        ELSE IF 2 * r > b THEN q + 1
        ELSE IF q % 2 = 0 THEN q ELSE q + 1

\* round(x, ndigits)
Round(x, nd) ==
    IF nd >= 0
    THEN Frac(RoundHalfEven(x.n * Pow10(nd), x.d), Pow10(nd))
    ELSE Frac(RoundHalfEven(x.n, x.d * Pow10(-nd)) * Pow10(-nd), 1)

SigFigs == 4

\* parlai.core.utils.round_sigfigs(x, 4)
round_sigfigs(x) ==
    IF "exp" \in DOMAIN x THEN [round |-> x]
    ELSE IF x.d = 0 THEN x
    ELSE IF x.n = 0 THEN x
    ELSE Round(x, -(FloorLog10(x) - SigFigs + 1))

\* math.exp overflows above 709.78
ExpOverflows(x) == x.n * 100 > 70978 * x.d

MathExp(x) == [exp |-> x]

----------------------------------------------------------------------------
(* report() *)

\* report() taking the perplexity of the summed loss: a faulty variant
reportPplOfTotal(ms) ==
    LET num_tok == ms.num_tokens
        m1 == IF num_tok > 0 /\ ms.correct_tokens > 0
              THEN ("token_acc" :> Frac(ms.correct_tokens, num_tok))
              ELSE << >>
        m2 == IF num_tok > 0
              THEN Put(m1, "loss", Frac(ms.loss, num_tok))
              ELSE m1
        m3 == IF num_tok > 0
              THEN Put(m2, "ppl", IF ExpOverflows(Frac(ms.loss, 1)) THEN Inf
                                  ELSE MathExp(Frac(ms.loss, 1)))
              ELSE m2
        m4 == IF ms.total_skipped_batches > 0
              THEN Put(m3, "total_skipped_batches",
                       Frac(ms.total_skipped_batches, 1))
              ELSE m3
    IN  [k \in DOMAIN m4 |-> round_sigfigs(m4[k])]

report(ms) ==
    LET num_tok == ms.num_tokens
        m1 == IF num_tok > 0 /\ ms.correct_tokens > 0
              THEN ("token_acc" :> Frac(ms.correct_tokens, num_tok))
              ELSE << >>
        m2 == IF num_tok > 0
              THEN Put(m1, "loss", Frac(ms.loss, num_tok))
              ELSE m1
        m3 == IF num_tok > 0
              THEN Put(m2, "ppl", IF ExpOverflows(m2["loss"]) THEN Inf
                                  ELSE MathExp(m2["loss"]))
              ELSE m2
        m4 == IF ms.total_skipped_batches > 0
              THEN Put(m3, "total_skipped_batches",
                       Frac(ms.total_skipped_batches, 1))
              ELSE m3
    IN  [k \in DOMAIN m4 |-> round_sigfigs(m4[k])]

----------------------------------------------------------------------------
(* The dictionary.  A word is a number 1..NumWords, a text is a sequence   *)
(* of words; the special tokens are the words below 1.                     *)

NULL_IDX == 0
START_IDX == 1
END_IDX == 2
UNK_IDX == 3

\* dict[token]
tok2ind(w) == IF w \in 1..NumWords THEN w + UNK_IDX ELSE UNK_IDX

\* dict[index]
ind2tok(i) == i - UNK_IDX

\* dict.txt2vec(text)
txt2vec(text) == Tup([i \in 1..Len(text) |-> tok2ind(text[i])])

\* dict.vec2txt(vec)
vec2txt(vec) == Tup([i \in 1..Len(vec) |-> ind2tok(vec[i])])

\* parse(text)
parse(text) == txt2vec(text)

\* v2t(vec) dropping END_IDX and reading on: a faulty variant
v2t_past_end(vec) ==
    vec2txt(SelectSeq(vec, LAMBDA i : i # END_IDX /\ i # START_IDX))

RECURSIVE v2t_loop(_, _, _)
\* lines 404-409 of v2t: the loop from position k of vec on, new_vec so far
v2t_loop(vec, k, new_vec) ==
    IF k > Len(vec) THEN new_vec
    ELSE IF vec[k] = END_IDX THEN new_vec
    ELSE IF vec[k] # START_IDX THEN v2t_loop(vec, k + 1, Append(new_vec, vec[k]))
    ELSE v2t_loop(vec, k + 1, new_vec)

\* v2t(vec)
v2t(vec) == vec2txt(v2t_loop(vec, 1, << >>))

----------------------------------------------------------------------------
(* Observations: Python dicts, here functions from the keys present.       *)

Texts == {Tup([i \in 1..n |-> ((i - 1) % NumWords) + 1]) : n \in 1..MaxText}

TheLabel == <<NumWords>>
TheCands == <<TheLabel, <<1>>>>

\* what a teacher or a user hands to observe()
ObserveInputs ==
    { (IF t = << >> THEN << >> ELSE ("text" :> t))
      @@ (IF l = "none" THEN << >> ELSE (l :> <<TheLabel>>))
      @@ ("episode_done" :> d)
      : t \in {<< >>} \cup Texts, l \in {"none", "eval_labels"}, d \in BOOLEAN }
    \cup
    { ("text" :> t) @@ ("episode_done" :> FALSE) @@ ("preprocessed" :> p)
      @@ ("text2vec" :> txt2vec(t))
      : t \in Texts, p \in BOOLEAN }
    \cup
    { ("text" :> t) @@ ("episode_done" :> FALSE) @@ ("preprocessed" :> TRUE)
      : t \in Texts }

\* parlai.core.utils.maintain_dialog_history: the new history and the
\* dialogue it returns
maintain_dialog_history(hist, obs, reply, historyLength, useReplies, useStartEndIndices) ==
    LET h0 == IF "dialog" \notin DOMAIN hist
              THEN [episode_done |-> FALSE, dialog |-> << >>, labels |-> << >>]
              ELSE hist
        h1 == IF h0.episode_done
              THEN [episode_done |-> FALSE, dialog |-> << >>, labels |-> << >>]
              ELSE h0
        ur == IF h0.episode_done THEN "none" ELSE useReplies
        d2 == IF ur = "none" THEN h1.dialog
              ELSE IF ur = "model" \/ (ur = "label_else_model" /\ Len(h1.labels) = 0)
              THEN IF ~IsNone(reply) /\ Len(Val(reply)) > 0
                   THEN Deque(h1.dialog
                              \o (IF useStartEndIndices THEN <<START_IDX>> ELSE << >>)
                              \o parse(Val(reply)), historyLength)
                   ELSE h1.dialog
              ELSE IF Len(h1.labels) > 0
              THEN Deque(h1.dialog \o h1.labels[1], historyLength)
              ELSE h1.dialog
        d3 == IF "text" \in DOMAIN obs
              THEN Deque(d2 \o (IF useStartEndIndices THEN <<END_IDX>> ELSE << >>)
                            \o parse(obs["text"]), historyLength)
              ELSE d2
        labels == Get(obs, "labels", Get(obs, "eval_labels", None))
        l4 == IF labels = None THEN h1.labels
              ELSE Tup([i \in 1..Len(labels) |->
                       (IF useStartEndIndices THEN <<START_IDX>> ELSE << >>)
                       \o parse(labels[i])])
    IN  [history |-> [episode_done |-> obs["episode_done"], dialog |-> d3, labels |-> l4],
         dialog |-> d3]

\* self.truncate
truncate(o) == IF o.truncate > 0 THEN Some(o.truncate) ELSE None

\* observe() once the dialogue is known: the agent's fields after the call,
\* the caller's dict after the call, and the value returned.  obs is the
\* dict the method works on, aliased when it is the caller's own dict, and
\* dialog the value of obs['text2vec']
observed(hist, ans, idx, obsv, aliased, obs, dialog) ==
    [answers |-> [ans EXCEPT ![idx + 1] = None],
     history |-> hist,
     observation |-> Some(Put(obs, "text2vec", dialog)),
     ret |-> Put(obs, "text2vec", dialog),
     caller |-> IF aliased THEN Put(obs, "text2vec", dialog) ELSE obsv]

\* lines 489-497 of observe: the history and obs['text2vec']
text2vec(o, hist, obs, mdh) ==
    IF ~Get(obs, "preprocessed", FALSE) \/ "text2vec" \notin DOMAIN obs
    THEN mdh
    ELSE [history |-> hist, dialog |-> Deque(obs["text2vec"], truncate(o))]

observing(o, hist, ans, idx, obsv, aliased, t2v) ==
    observed(t2v.history, ans, idx, obsv, aliased, obsv, t2v.dialog)

\* observe() working on the caller's dict: a faulty variant
observeNoCopy(o, hist, ans, idx, obsv) ==
    observing(o, hist, ans, idx, obsv, TRUE,
              text2vec(o, hist, obsv,
                       maintain_dialog_history(hist, obsv, ans[idx + 1], truncate(o),
                                               o.history_replies, o.person_tokens)))

\* observe(observation); obs = observation.copy() is not the caller's dict
observe(o, hist, ans, idx, obsv) ==
    observing(o, hist, ans, idx, obsv, FALSE,
              text2vec(o, hist, obsv,
                       maintain_dialog_history(hist, obsv, ans[idx + 1], truncate(o),
                                               o.history_replies, o.person_tokens)))

----------------------------------------------------------------------------
(* Batching.  Positions in a batch are 1-based here, 0-based in the code.  *)

\* sorted(range(len(lens)), key=lambda k: -lens[k]): a stable sort
SortedByLen(lens) ==
    LET n == Len(lens)
        pos(k) == 1 + Cardinality({j \in 1..n : lens[j] > lens[k]
                                                \/ (lens[j] = lens[k] /\ j < k)})
    IN  Tup([p \in 1..n |-> CHOOSE k \in 1..n : pos(k) = p])

\* 1, .., n
Range(n) == Tup([i \in 1..n |-> i])

PadTo(row, n) == row \o Tup([i \in 1..(n - Len(row)) |-> NULL_IDX])

RECURSIVE MaxLen(_)
MaxLen(rows) == IF rows = << >> THEN 0 ELSE Max(Len(Head(rows)), MaxLen(Tail(rows)))

\* pad_text's valid(obs): the example has a text
valid_example(ob) == "text" \in DOMAIN ob /\ Len(ob["text"]) > 0

\* the padded rows of pad_text and its labels; exs are the valid examples
\* and px their token rows, both sorted by length
pad_rows(exs, px, valid_inds, end_idx, trunc, labels_avail, some_labels_avail) ==
    LET labels == Tup([k \in 1..Len(exs) |->
                         IF labels_avail THEN Get(exs[k], "labels", << << >> >>)[1]
                         ELSE Get(exs[k], "eval_labels", << << >> >>)[1]])
        py == Tup([k \in 1..Len(exs) |->
                     IF IsNone(end_idx) THEN Deque(txt2vec(labels[k]), trunc)
                     ELSE Deque(Deque(txt2vec(labels[k]), trunc) \o <<Val(end_idx)>>,
                                trunc)])
        xlen == MaxLen(px)
        ylen == MaxLen(py)
    IN  [labels |-> IF some_labels_avail THEN Some(labels) ELSE None,
         valid_inds |-> Some(valid_inds),
         xs |-> Some(Tup([k \in 1..Len(px) |-> PadTo(px[k], xlen)])),
         ys |-> IF some_labels_avail
                THEN Some(Tup([k \in 1..Len(py) |-> PadTo(py[k], ylen)]))
                ELSE None]

\* pad_text after the valid examples vi0 and their rows px0 are known:
\* they are sorted by length, longest first
pad_sorted(observations, vi0, px0, ord, end_idx, trunc) ==
    pad_rows(Tup([k \in 1..Len(vi0) |-> observations[vi0[ord[k]]]]),
             Tup([k \in 1..Len(vi0) |-> px0[ord[k]]]),
             Tup([k \in 1..Len(vi0) |-> vi0[ord[k]]]),
             end_idx, trunc,
             \E k \in 1..Len(vi0) : "labels" \in DOMAIN observations[vi0[k]],
             \E k \in 1..Len(vi0) :
                 {"labels", "eval_labels"} \cap DOMAIN observations[vi0[k]] # {})

pad_valid(observations, vi0, px0, end_idx, trunc) ==
    pad_sorted(observations, vi0, px0,
               SortedByLen(Tup([k \in 1..Len(px0) |-> Len(px0[k])])), end_idx, trunc)

pad_parsed(observations, vi0, end_idx, trunc) ==
    pad_valid(observations, vi0,
              Tup([k \in 1..Len(vi0) |->
                     IF "text2vec" \in DOMAIN observations[vi0[k]]
                     THEN observations[vi0[k]]["text2vec"]
                     ELSE Deque(txt2vec(observations[vi0[k]]["text"]), trunc)]),
              end_idx, trunc)

\* PaddingUtils.pad_text(observations, dict, end_idx, null_idx, dq=True,
\* eval_labels=True, truncate): xs is None when no observation is valid
pad_text(observations, end_idx, trunc) ==
    IF \A k \in 1..Len(observations) : ~valid_example(observations[k])
    THEN [labels |-> None, valid_inds |-> None, xs |-> None, ys |-> None]
    ELSE pad_parsed(observations,
                    SelectSeq(Range(Len(observations)),
                              LAMBDA i : valid_example(observations[i])),
                    end_idx, trunc)

\* lines 609-624: the candidates of the valid examples that carry some,
\* each list sorted as pad_text sorts it
candidates(o, observations, vi) ==
    LET has(v) == "label_candidates" \in DOMAIN observations[v]
        withc == SelectSeq(Range(Len(vi)), LAMBDA i : has(vi[i]))
        lcs(c) == observations[vi[withc[c]]]["label_candidates"]
        vci(c) == Val(pad_text(Tup([j \in 1..Len(lcs(c)) |-> ("text" :> lcs(c)[j])]),
                               None, truncate(o)).valid_inds)
    IN  Tup([c \in 1..Len(withc) |->
               [v |-> vi[withc[c]], i |-> withc[c],
                cands |-> Tup([j \in 1..Len(vci(c)) |-> lcs(c)[vci(c)[j]]])]])

\* lines 598-626 of vectorize, pt being what pad_text returned
vectorized(o, observations, is_training, pt) ==
    IF IsNone(pt.xs)
    THEN [labels |-> None, valid_inds |-> None, xs |-> None, ys |-> None,
          is_training |-> FALSE, valid_cands |-> None]
    ELSE [labels |-> pt.labels, valid_inds |-> pt.valid_inds,
          xs |-> pt.xs, ys |-> pt.ys,
          is_training |-> is_training,
          valid_cands |-> IF ~is_training /\ o.rank_candidates
                          THEN Some(candidates(o, observations, Val(pt.valid_inds)))
                          ELSE None]

\* vectorize(observations); cands is not None exactly when valid_cands is
vectorize(o, observations) ==
    vectorized(o, observations,
               \E k \in 1..Len(observations) : "labels" \in DOMAIN observations[k],
               pad_text(observations, Some(END_IDX), truncate(o)))

----------------------------------------------------------------------------
(* The neural model and predict().  A pass of the model is the             *)
(* environment's choice env: the loss it computes, whether its output hits *)
(* the targets, and whether it runs out of memory or fails otherwise.      *)

\* the summed loss of a batch: none, one whose average needs no rounding, one
\* whose average is rounded and whose exponential overflows
Losses == {0, 7, 12345}
Errors == {"none", "oom_forward", "oom_backward", "other"}
Envs == [loss : Losses, hit : BOOLEAN, err : Errors, buf_oom : BOOLEAN]
ActEnvs == {e \in Envs : e.loss = 7}
TrainEnvs == {e \in ActEnvs : e.hit /\ e.err = "none" /\ ~e.buf_oom}

\* self.model(xs, ys, rank_during_training): out[0] and out[2]
forward(ys, cands, env) ==
    [preds |-> IF IsNone(ys) THEN None
               ELSE IF env.hit THEN ys
               ELSE Some(Tup([k \in 1..Len(Val(ys)) |->
                                Tup([j \in 1..Len(Val(ys)[k]) |-> UNK_IDX])])),
     cand_preds |-> IF IsNone(cands) THEN None
                    ELSE Some(Tup([c \in 1..Len(Val(cands)) |->
                                     Tup([j \in 1..Len(Val(cands)[c].cands) |-> j])]))]

\* gold.ne(NULL_IDX).long().sum()
TargetTokens(gold) ==
    SumSeq(Tup([k \in 1..Len(gold) |->
                  Cardinality({j \in 1..Len(gold[k]) : gold[k][j] # NULL_IDX})]))

\* ((gold == _preds) * y_ne).sum()
Correct(gold, preds) ==
    SumSeq(Tup([k \in 1..Len(gold) |->
                  Cardinality({j \in 1..Len(gold[k]) :
                                  gold[k][j] # NULL_IDX /\ gold[k][j] = preds[k][j]})]))

\* update_params(): one optimizer step
update_params(st) ==
    [st EXCEPT !.model.weights = @ + 1, !.optimizer = Some([Val(@) EXCEPT !.state = @ + 1])]

Raise(st, e) == [exc |-> e, cand_preds |-> None, st |-> st, predictions |-> None]

\* the handler raising again: a faulty variant
on_out_of_memory_reraise(s, cand_preds) ==
    Raise(s, "RuntimeError")

\* lines 534-541: the batch is skipped
on_out_of_memory(s, cand_preds) ==
    [exc |-> "none",
     cand_preds |-> cand_preds,
     st |-> [s EXCEPT !.metrics.total_skipped_batches = @ + 1],
     predictions |-> None]

\* lines 529-531: the metrics of a training batch
train_metrics(st, gold, preds, loss) ==
    [st EXCEPT !.metrics.correct_tokens = @ + Correct(gold, preds),
               !.metrics.loss = @ + loss,
               !.metrics.num_tokens = @ + TargetTokens(gold)]

\* lines 576-577: the metrics of an evaluation batch
eval_metrics(st, gold, loss) ==
    [st EXCEPT !.metrics.loss = @ + loss,
               !.metrics.num_tokens = @ + TargetTokens(gold)]

\* lines 509-544: a training step, out being what the model returns and s2
\* the fields once the metrics are updated
train_step(st, s2, ys, out, env) ==
    IF IsNone(st.optimizer) THEN Raise(st, "AttributeError")
    ELSE IF env.err = "oom_forward" THEN on_out_of_memory(st, None)
    ELSE IF env.err = "other" THEN Raise(st, "RuntimeError")
    ELSE IF IsNone(ys) THEN Raise(st, "AttributeError")
    ELSE IF env.err = "oom_backward" THEN on_out_of_memory(s2, out.cand_preds)
    ELSE [exc |-> "none", cand_preds |-> out.cand_preds,
          st |-> update_params(s2), predictions |-> None]

\* lines 545-588: an evaluation step; `predicted` is no name of the program
eval_step(st, ys, out, env) ==
    IF IsNone(ys) THEN Raise(st, "NameError")
    ELSE [exc |-> "none", cand_preds |-> None,
          st |-> eval_metrics(st, Val(ys), env.loss), predictions |-> out.preds]

predicted(st, ys, is_training, out, env) ==
    IF is_training
    THEN train_step(st, IF IsNone(ys) THEN st
                        ELSE train_metrics(st, Val(ys), Val(out.preds), env.loss),
                    ys, out, env)
    ELSE eval_step(st, ys, out, env)

\* predict(xs, ys, cands, valid_cands, is_training) on the fields
\* st = [model, optimizer, metrics]; cands holds one entry per list of
\* candidates, and is None exactly when the code's cands is
predict(st, xs, ys, cands, is_training, env) ==
    predicted(st, ys, is_training, forward(ys, cands, env), env)

----------------------------------------------------------------------------
(* batch_act() and act() *)

AgentId == "Transformer"

\* the least member of a set of numbers
Least(S) == CHOOSE j \in S : \A k \in S : j <= k

\* the tokens of row before its first END_IDX; an END_IDX in front is kept
OutputTokens(row) ==
    IF \A j \in 2..Len(row) : row[j] # END_IDX THEN row
    ELSE SubSeq(row, 1, Least({j \in 2..Len(row) : row[j] = END_IDX}) - 1)

\* the tokens of row before its first END_IDX or NULL_IDX
LabelTokens(row) ==
    IF \A j \in 1..Len(row) : row[j] \notin {END_IDX, NULL_IDX} THEN row
    ELSE SubSeq(row, 1, Least({j \in 1..Len(row) : row[j] \in {END_IDX, NULL_IDX}}) - 1)

\* the row of valid_inds that holds position p, 0 when none does
RowOf(valid_inds, p) ==
    IF \E i \in 1..Len(valid_inds) : valid_inds[i] = p
    THEN CHOOSE i \in 1..Len(valid_inds) : valid_inds[i] = p
    ELSE 0

\* PaddingUtils.map_predictions: the replies and the answers it leaves
map_predictions(predictions, valid_inds, batch_reply, labels, ans, ys) ==
    [answers |->
         Tup([p \in 1..Len(ans) |->
                IF RowOf(valid_inds, p) = 0 THEN ans[p]
                ELSE IF ~IsNone(labels) /\ ~IsNone(ys)
                THEN Some(LabelTokens(Val(ys)[RowOf(valid_inds, p)]))
                ELSE Some(vec2txt(OutputTokens(predictions[RowOf(valid_inds, p)])))]),
     batch_reply |->
         Tup([p \in 1..Len(batch_reply) |->
                IF RowOf(valid_inds, p) = 0 THEN batch_reply[p]
                ELSE Put(batch_reply[p], "text",
                         vec2txt(OutputTokens(predictions[RowOf(valid_inds, p)])))])]

\* the candidates of vc in the order cand_preds gives
Ranked(order, cands) ==
    Tup([k \in 1..Len(SelectSeq(order, LAMBDA idx : idx <= Len(cands))) |->
           cands[SelectSeq(order, LAMBDA idx : idx <= Len(cands))[k]]])

\* lines 684-692: text_candidates from cand_preds; vc is valid_cands, or
\* the labels of every valid example when valid_cands is None
with_candidates(batch_reply, cand_preds, vc) ==
    Tup([p \in 1..Len(batch_reply) |->
           IF \A i \in 1..Len(vc) : vc[i].v # p THEN batch_reply[p]
           ELSE Put(batch_reply[p], "text_candidates",
                    Ranked(cand_preds[Least({i \in 1..Len(vc) : vc[i].v = p})],
                           vc[Least({i \in 1..Len(vc) : vc[i].v = p})].cands))])

\* lines 674-694 of batch_act: the replies, mp being what map_predictions left
replied(a, v, pr, mp) ==
    [ret |-> IF IsNone(pr.cand_preds) THEN Some(mp.batch_reply)
             ELSE Some(with_candidates(
                      mp.batch_reply, Val(pr.cand_preds),
                      IF IsNone(v.valid_cands)
                      THEN Tup([i \in 1..Len(Val(v.valid_inds)) |->
                                  [v |-> Val(v.valid_inds)[i], cands |-> Val(v.labels)]])
                      ELSE Val(v.valid_cands))),
     exc |-> "none",
     a |-> [a EXCEPT !.answers = mp.answers]]

\* lines 672-694 of batch_act, pr being what predict returned
acted(a, batch_reply, v, pr) ==
    IF pr.exc # "none"
    THEN [ret |-> None, exc |-> pr.exc,
          a |-> [a EXCEPT !.model = pr.st.model, !.optimizer = pr.st.optimizer,
                          !.metrics = pr.st.metrics]]
    ELSE replied([a EXCEPT !.model = pr.st.model, !.optimizer = pr.st.optimizer,
                           !.metrics = pr.st.metrics],
                 v, pr,
                 IF IsNone(pr.predictions)
                 THEN [answers |-> a.answers, batch_reply |-> batch_reply]
                 ELSE map_predictions(Val(pr.predictions), Val(v.valid_inds), batch_reply,
                                      v.labels, a.answers, v.ys))

\* lines 664-694 of batch_act, v being what vectorize returned
batched(a, batch_reply, v, env) ==
    IF IsNone(v.xs) THEN [ret |-> Some(batch_reply), exc |-> "none", a |-> a]
    ELSE acted(a, batch_reply, v,
               predict([model |-> a.model, optimizer |-> a.optimizer,
                        metrics |-> a.metrics],
                       v.xs, v.ys, v.valid_cands, v.is_training, env))

\* init_cuda_buffer(batchsize): whether it runs the model
init_cuda_buffer(cuda, a) == cuda /\ ~a.buffer_initialized

\* batch_act(observations) on the fields
\* a = [model, optimizer, metrics, answers, buffer_initialized]
batch_act(o, cuda, a, observations, env) ==
    IF init_cuda_buffer(cuda, a) /\ env.buf_oom
    THEN [ret |-> None, exc |-> "RuntimeError", a |-> a]
    ELSE batched([a EXCEPT !.buffer_initialized = @ \/ cuda],
                 Tup([p \in 1..Len(observations) |-> ("id" :> AgentId)]),
                 vectorize(o, observations), env)

----------------------------------------------------------------------------
(* Files, the constructor, save() and shutdown().  A path is a string, a   *)
(* file a path with a content: the states torch.save wrote, the pickled    *)
(* options, or a dictionary.                                               *)

isfile(fs, path) == path \in DOMAIN fs

\* a Python string is true when it is not empty
Truthy(p) == ~IsNone(p) /\ Val(p) # ""

NumParams == 2      \* parameter tensors of the model; one is the embedding

\* self.model.state_dict()
model_state_dict(m) == [weights |-> m.weights, emb |-> m.emb]

\* self.model.load_state_dict(sd)
model_load_state_dict(m, sd) == [m EXCEPT !.weights = sd.weights, !.emb = sd.emb]

\* self.optimizer.state_dict()
optimizer_state_dict(opz) ==
    [state |-> opz.state, param_groups |-> [lr |-> opz.lr, params |-> opz.params]]

\* self.optimizer.load_state_dict(sd): a ValueError when the parameter
\* groups differ in size leaves the optimizer as it was built
optimizer_load_state_dict(opz, sd) ==
    IF sd.param_groups.params # opz.params THEN opz
    ELSE [opz EXCEPT !.state = sd.state, !.lr = sd.param_groups.lr]

\* load(path)
load(fs, path) == fs[path].data

\* init_model taking precedence over model_file: a faulty variant
init_model_first(o, fs) ==
    LET mf == IF Truthy(o.model_file) /\ isfile(fs, Val(o.model_file))
              THEN o.model_file ELSE None
    IN  IF Truthy(o.init_model) /\ isfile(fs, Val(o.init_model))
        THEN o.init_model ELSE mf

\* lines 226-240: the file the states come from, None when there is none
init_model_file(o, fs) ==
    LET im == IF Truthy(o.init_model) /\ isfile(fs, Val(o.init_model))
              THEN o.init_model ELSE None
    IN  IF Truthy(o.model_file) /\ isfile(fs, Val(o.model_file))
        THEN o.model_file ELSE im

\* lines 239-240: opt['dict_file'] after the load
dict_file_after(o, fs, init_model) ==
    IF IsNone(init_model) THEN o.dict_file
    ELSE IF isfile(fs, Val(init_model) \o ".dict") \/ IsNone(o.dict_file)
    THEN Some(Val(init_model) \o ".dict")
    ELSE o.dict_file

\* lines 259-312: the model
build_model(o, states) ==
    LET fresh == [weights |-> 0,
                  emb |-> IF IsNone(states) /\ o.embedding_type # "random"
                          THEN "glove" ELSE "random",
                  longest_label |-> 1]
    IN  IF IsNone(states) THEN fresh
        ELSE model_load_state_dict(fresh, Val(states).model)

\* lines 343-349: the parameters that require a gradient
trainable(o) == IF o.embedding_type = "glove-fixed" THEN NumParams - 1 ELSE NumParams

\* lines 349: optim_class(parameters, lr=lr)
new_optimizer(o) ==
    [state |-> 0, lr |-> o.learningrate, params |-> trainable(o), type |-> o.optimizer]

\* an optimizer that never loads the saved state: a faulty variant
build_optimizer_fresh(o, states) ==
    IF o.datatype # "train" THEN None ELSE Some(new_optimizer(o))

\* lines 328-369: the optimizer of a training agent, None otherwise
build_optimizer(o, states) ==
    IF o.datatype # "train" THEN None
    ELSE IF IsNone(states) THEN Some(new_optimizer(o))
    ELSE IF Val(states).optimizer_type # o.optimizer THEN Some(new_optimizer(o))
    ELSE Some(optimizer_load_state_dict(new_optimizer(o), Val(states).optimizer))

ZeroMetrics == [num_tokens |-> 0, correct_tokens |-> 0, loss |-> 0,
                total_skipped_batches |-> 0]

\* __init__(opt) of an agent that is not shared: its fields
NewAgent(o, fs) ==
    LET init_model == init_model_file(o, fs)
        states == IF IsNone(init_model) THEN None ELSE Some(load(fs, Val(init_model)))
    IN  [opt |-> [o EXCEPT !.dict_file = dict_file_after(o, fs, init_model)],
         model |-> build_model(o, states),
         optimizer |-> build_optimizer(o, states),
         metrics |-> ZeroMetrics,
         answers |-> Tup([i \in 1..o.batchsize |-> None]),
         history |-> << >>,
         observation |-> None,
         loaded |-> init_model]

\* save(path): the files afterwards and the exception raised
save(o, m, opz, fs, path) ==
    LET p == IF IsNone(path) THEN o.model_file ELSE path
        states == [model |-> model_state_dict(m),
                   optimizer |-> optimizer_state_dict(Val(opz)),
                   longest_label |-> m.longest_label,
                   optimizer_type |-> o.optimizer]
    IN  IF ~Truthy(p) THEN [files |-> fs, exc |-> "none"]
        ELSE IF IsNone(opz) THEN [files |-> fs, exc |-> "AttributeError"]
        ELSE [files |-> Put(Put(fs, Val(p), [data |-> states, kind |-> "states"]),
                            Val(p) \o ".opt", [kind |-> "opt"]),
              exc |-> "none"]

\* shutdown() saving over the model file: a faulty variant
shutdown_to_model_file(o, m, opz, fs) ==
    IF ~IsNone(o.model_file) /\ ~IsNone(opz)
    THEN save(o, m, opz, fs, o.model_file)
    ELSE [files |-> fs, exc |-> "none"]

\* shutdown()
shutdown(o, m, opz, fs) ==
    IF ~IsNone(o.model_file) /\ ~IsNone(opz)
    THEN save(o, m, opz, fs, Some(Val(o.model_file) \o ".shutdown_state"))
    ELSE [files |-> fs, exc |-> "none"]

----------------------------------------------------------------------------
(* The operations as actions. *)

DefaultOpt ==
    [optimizer |-> "sgd", truncate |-> -1, history_replies |-> "label_else_model",
     person_tokens |-> FALSE, rank_candidates |-> FALSE, model_file |-> None,
     init_model |-> None, dict_file |-> None, embedding_type |-> "random",
     learningrate |-> 1, datatype |-> "train",
     batchsize |-> BatchSize]

\* an observation of a batch: a text, labels of one kind or none, candidates
Ob(t, l, c) ==
    (IF t = << >> THEN << >> ELSE ("text" :> t) @@ ("text2vec" :> txt2vec(t)))
    @@ (IF l = "none" THEN << >> ELSE (l :> <<TheLabel>>))
    @@ (IF c THEN ("label_candidates" :> TheCands) ELSE << >>)

ShortText == CHOOSE t \in Texts : Len(t) = 1
LongText == CHOOSE t \in Texts : Len(t) = MaxText

\* the batches handed to batch_act
Batches ==
    {<< >>, << << >> >>, <<Ob(<< >>, "labels", FALSE)>>, << << >>, << >> >>}
    \cup {<<Ob(ShortText, l, c)>>
              : l \in {"none", "labels", "eval_labels"}, c \in BOOLEAN}
    \cup {<<Ob(ShortText, l, c), Ob(LongText, l, c)>>
              : l \in {"none", "eval_labels"}, c \in BOOLEAN}
    \cup {<<Ob(ShortText, "none", FALSE), Ob(LongText, "none", TRUE)>>,
          << << >>, Ob(ShortText, "eval_labels", TRUE)>>,
          <<Ob(ShortText, "none", FALSE), Ob(<< >>, "labels", FALSE)>>,
          <<Ob(LongText, "labels", FALSE), << >> >>}

\* the choices of the environment that a batch can tell apart: the buffer
\* is filled once and on a GPU, a loss is computed from targets, the passes
\* that can fail are those of a training batch, the backward pass runs
\* after a loss was computed
EnvsOf(v, cuda, buffered, Choices, lo, hi) ==
    {e \in Choices :
        /\ (~cuda \/ buffered => ~e.buf_oom)
        /\ (IsNone(v.xs) \/ IsNone(v.ys) => e.loss = lo /\ e.hit = hi)
        /\ (IsNone(v.xs) \/ ~v.is_training => e.err = "none")
        /\ (e.err = "oom_backward" => ~IsNone(v.ys))
        /\ (e.err \in {"oom_forward", "other"} => e.loss = lo /\ e.hit = hi)}

EnvsFor(o, cuda, buffered, observations, Choices) ==
    EnvsOf(vectorize(o, observations), cuda, buffered, Choices,
           Least({c.loss : c \in Choices}), \E c \in Choices : c.hit)

Fields == [model |-> model, optimizer |-> optimizer, metrics |-> metrics,
           answers |-> answers, buffer_initialized |-> buffer_initialized]

Bounded(a) ==
    /\ a.metrics.num_tokens <= MaxTokens
    /\ a.metrics.total_skipped_batches <= MaxSkipped
    /\ a.model.weights <= MaxSteps

SetAgent(ag) ==
    /\ opt' = ag.opt
    /\ model' = ag.model
    /\ optimizer' = ag.optimizer
    /\ metrics' = ag.metrics
    /\ answers' = ag.answers
    /\ history' = ag.history
    /\ observation' = ag.observation
    /\ buffer_initialized' = FALSE

\* TransformerAgent(opt)
Construct(Opts) ==
    \E o \in Opts :
        \E ag \in {NewAgent(o, files)} :
            /\ SetAgent(ag)
            /\ op' = "__init__"
            /\ arg' = o
            /\ ret' = ag.loaded
            /\ exc' = "none"
            /\ UNCHANGED <<files, use_cuda, batch_idx>>

\* observe(observation)
Observe ==
    \E obsv \in ObserveInputs :
        \E r \in {observe(opt, history, answers, batch_idx, obsv)} :
            /\ Len(r.ret["text2vec"]) <= MaxDialog
            /\ observation' = r.observation
            /\ history' = r.history
            /\ answers' = r.answers
            /\ op' = "observe"
            /\ arg' = [given |-> obsv, after |-> r.caller]
            /\ ret' = r.ret
            /\ exc' = "none"
            /\ UNCHANGED <<opt, files, use_cuda, batch_idx, model, optimizer, metrics,
                           buffer_initialized>>

\* a call of batch_act; act() returns the first of its replies
CallBatchAct(name, observations, env) ==
    \E r \in {batch_act(opt, use_cuda, Fields, observations, env)} :
        /\ Bounded(r.a)
        /\ model' = r.a.model
        /\ optimizer' = r.a.optimizer
        /\ metrics' = r.a.metrics
        /\ answers' = r.a.answers
        /\ buffer_initialized' = r.a.buffer_initialized
        /\ op' = name
        /\ arg' = [observations |-> observations, env |-> env]
        /\ ret' = IF IsNone(r.ret) \/ name = "batch_act" THEN r.ret
                  ELSE Some(Val(r.ret)[1])
        /\ exc' = r.exc
        /\ UNCHANGED <<opt, files, use_cuda, batch_idx, history, observation>>

\* batch_act(observations)
BatchAct(Inputs, Choices) ==
    \E observations \in Inputs :
        \E env \in EnvsFor(opt, use_cuda, buffer_initialized, observations, Choices) :
            CallBatchAct("batch_act", observations, env)

\* act()
Act ==
    /\ ~IsNone(observation)
    /\ \E env \in EnvsFor(opt, use_cuda, buffer_initialized, <<Val(observation)>>, ActEnvs) :
           CallBatchAct("act", <<Val(observation)>>, env)

\* report()
Report ==
    /\ op' = "report"
    /\ arg' = None
    /\ ret' = report(metrics)
    /\ exc' = "none"
    /\ UNCHANGED <<opt, files, use_cuda, batch_idx, model, optimizer, metrics, answers,
                   history, observation, buffer_initialized>>

\* reset_metrics()
reset_metrics(ms) ==
    [ms EXCEPT !.loss = 0, !.num_tokens = 0, !.correct_tokens = 0]

ResetMetrics ==
    /\ metrics' = reset_metrics(metrics)
    /\ op' = "reset_metrics"
    /\ arg' = None
    /\ ret' = None
    /\ exc' = "none"
    /\ UNCHANGED <<opt, files, use_cuda, batch_idx, model, optimizer, answers,
                   history, observation, buffer_initialized>>

\* reset()
Reset ==
    /\ observation' = None
    /\ history' = << >>
    /\ answers' = Tup([i \in 1..Len(answers) |-> None])
    /\ metrics' = reset_metrics(metrics)
    /\ op' = "reset"
    /\ arg' = None
    /\ ret' = None
    /\ exc' = "none"
    /\ UNCHANGED <<opt, files, use_cuda, batch_idx, model, optimizer,
                   buffer_initialized>>

\* save(path)
Save ==
    \E path \in {None, Some("i")} :
        \E r \in {save(opt, model, optimizer, files, path)} :
            /\ files' = r.files
            /\ op' = "save"
            /\ arg' = path
            /\ ret' = None
            /\ exc' = r.exc
            /\ UNCHANGED <<opt, use_cuda, batch_idx, model, optimizer, metrics, answers,
                           history, observation, buffer_initialized>>

\* shutdown()
Shutdown ==
    \E r \in {shutdown(opt, model, optimizer, files)} :
        /\ files' = r.files
        /\ op' = "shutdown"
        /\ arg' = None
        /\ ret' = None
        /\ exc' = r.exc
        /\ UNCHANGED <<opt, use_cuda, batch_idx, model, optimizer, metrics, answers,
                       history, observation, buffer_initialized>>

----------------------------------------------------------------------------
(* Spec: one agent that is handed batches and reports its metrics.         *)

NoFiles == << >>

\* the fields of a new agent built with options o over the files fs
Built(o, fs) ==
    \E ag \in {NewAgent(o, fs)} :
        /\ files = fs
        /\ opt = ag.opt
        /\ model = ag.model
        /\ optimizer = ag.optimizer
        /\ metrics = ag.metrics
        /\ answers = ag.answers
        /\ history = ag.history
        /\ observation = ag.observation
        /\ buffer_initialized = FALSE
        /\ op = "__init__"
        /\ arg = o
        /\ ret = ag.loaded
        /\ exc = "none"

\* the options of the agents of Spec
ActOpts ==
    {[DefaultOpt EXCEPT !.datatype = d, !.rank_candidates = r]
        : d \in {"train", "valid"}, r \in BOOLEAN}

Init ==
    /\ \E o \in ActOpts : Built(o, NoFiles)
    /\ use_cuda \in BOOLEAN
    /\ batch_idx = 0

ActBatch == BatchAct(Batches, ActEnvs)

Next == ActBatch

Spec == Init /\ [][Next]_vars

----------------------------------------------------------------------------
(* SpecReport: one agent whose metrics grow batch by batch and are         *)
(* reported and reset.                                                     *)

ReportOpts ==
    {[DefaultOpt EXCEPT !.datatype = d, !.truncate = t]
        : d \in {"train", "valid"}, t \in {-1, 1}}

InitReport ==
    /\ \E o \in ReportOpts : Built(o, NoFiles)
    /\ use_cuda = FALSE
    /\ batch_idx = 0

CountedBatches ==
    {<<Ob(ShortText, l, FALSE)>> : l \in {"labels", "eval_labels"}}

Count == BatchAct(CountedBatches, Envs)

NextReport == Count \/ Report \/ ResetMetrics

SpecReport == InitReport /\ [][NextReport]_vars

----------------------------------------------------------------------------
(* SpecObserve: one agent, or one shared copy of it, that observes and     *)
(* acts turn by turn.                                                      *)

ObserveOpts ==
    {[DefaultOpt EXCEPT !.datatype = "valid", !.truncate = t, !.history_replies = h]
        : t \in {-1, 1}, h \in {"none", "model", "label_else_model"}}

InitObserve ==
    /\ \E o \in ObserveOpts : Built(o, NoFiles)
    /\ use_cuda = FALSE
    /\ batch_idx \in 0..(BatchSize - 1)

NextObserve == Observe \/ Act \/ Reset

SpecObserve == InitObserve /\ [][NextObserve]_vars

----------------------------------------------------------------------------
(* SpecFiles: agents built one after the other over one file system, each  *)
(* saved and shut down.                                                    *)

\* the options of the agents of SpecFiles
FileOpts ==
    {[DefaultOpt EXCEPT !.model_file = mf, !.init_model = im, !.dict_file = df,
                        !.datatype = d]
        : mf \in {None, Some(""), Some("m")}, im \in {None, Some("i")},
          df \in {None, Some("d")}, d \in {"train", "valid"}}

DictFile == [kind |-> "dict"]

DictFiles == {NoFiles, ("m.dict" :> DictFile), ("i.dict" :> DictFile),
              ("m.dict" :> DictFile) @@ ("i.dict" :> DictFile)}

InitFiles ==
    /\ \E o \in FileOpts, fs \in DictFiles : Built(o, fs)
    /\ use_cuda = FALSE
    /\ batch_idx = 0

Build == Construct(FileOpts)

NextFiles == Build \/ Save \/ Shutdown

SpecFiles == InitFiles /\ [][NextFiles]_vars

----------------------------------------------------------------------------
(* SpecRoundTrip: agents built one after the other on one model file,      *)
(* each trained and saved.                                                 *)

\* the options of the agents of SpecRoundTrip
RoundTripOpts ==
    {[DefaultOpt EXCEPT !.model_file = Some("m"), !.datatype = d, !.optimizer = oz,
                        !.embedding_type = e]
        : d \in {"train", "valid"}, oz \in {"sgd", "adam"},
          e \in {"random", "glove-fixed"}}

InitRoundTrip ==
    /\ \E o \in RoundTripOpts : Built(o, NoFiles)
    /\ use_cuda = FALSE
    /\ batch_idx = 0

TrainBatches == {<<Ob(ShortText, "labels", FALSE)>>}

Rebuild == Construct(RoundTripOpts)

Train == BatchAct(TrainBatches, TrainEnvs)

NextRoundTrip == Rebuild \/ Train \/ Save

SpecRoundTrip == InitRoundTrip /\ [][NextRoundTrip]_vars

-----------------------------------------------------------------------------
(* SpecV2t: one agent asked to turn vectors of token indices into text.    *)

\* every index of the dictionary: the special tokens and the words
Indices == NULL_IDX..(UNK_IDX + NumWords)

Vecs == UNION {{Tup(f) : f \in [1..n -> Indices]} : n \in 0..MaxVec}

InitV2t ==
    /\ Built(DefaultOpt, NoFiles)
    /\ use_cuda = FALSE
    /\ batch_idx = 0

\* v2t(vec); it reads the dictionary alone, so each agent is asked once
V2t ==
    \E vec \in Vecs :
        /\ op = "__init__"
        /\ op' = "v2t"
        /\ arg' = vec
        /\ ret' = v2t(vec)
        /\ exc' = "none"
        /\ UNCHANGED <<opt, files, use_cuda, batch_idx, model, optimizer, metrics,
                       answers, history, observation, buffer_initialized>>

NextV2t == V2t

SpecV2t == InitV2t /\ [][NextV2t]_vars

----------------------------------------------------------------------------
(* Properties. *)

\* the average loss per token of the metrics
AverageLoss == Frac(metrics.loss, metrics.num_tokens)

\* C1: report() with num_tokens > 0 contains 'loss', the total loss divided
\* by num_tokens, and 'ppl', the exponential of that average (inf when it
\* overflows), both rounded to 4 significant figures; with num_tokens = 0 it
\* contains none of 'loss', 'ppl', 'token_acc'; 'token_acc' is present
\* only if moreover correct_tokens > 0.
C1_ReportMetrics ==
    op = "report" =>
        /\ metrics.num_tokens > 0 =>
              /\ {"loss", "ppl"} \subseteq DOMAIN ret
              /\ ret["loss"] = round_sigfigs(AverageLoss)
              /\ ret["ppl"] = IF ExpOverflows(AverageLoss) THEN Inf
                              ELSE [round |-> [exp |-> AverageLoss]]
        /\ metrics.num_tokens = 0 => DOMAIN ret \cap {"loss", "ppl", "token_acc"} = {}
        /\ "token_acc" \in DOMAIN ret =>
              metrics.num_tokens > 0 /\ metrics.correct_tokens > 0

\* a report over several counted tokens, some of them correct, whose
\* average loss is not the total loss
C1_Witness ==
    /\ op = "report"
    /\ metrics.num_tokens > 1
    /\ metrics.loss > 0
    /\ ~ExpOverflows(AverageLoss)
    /\ "token_acc" \in DOMAIN ret

\* the states held by the file an agent was built from
LoadedStates == files[Val(ret)].data

\* the states save(path) writes for the agent as it is
SavedStates ==
    [model |-> model_state_dict(model), optimizer |-> optimizer_state_dict(Val(optimizer)),
     longest_label |-> model.longest_label,
     optimizer_type |-> opt.optimizer]

\* the file save(path) writes to
SavePath == IF IsNone(arg) THEN Val(opt.model_file) ELSE Val(arg)

\* save(path) of a training agent leaves the agent's states in the file
SaveWritesStates ==
    op = "save" /\ ~IsNone(optimizer) =>
        /\ exc = "none"
        /\ isfile(files, SavePath)
        /\ files[SavePath].data = SavedStates

\* C2 as stated: a training agent built from a saved file with the same
\* optimizer name has the model state and the optimizer state of the file.
C2_RoundTrip ==
    /\ SaveWritesStates
    /\ op = "__init__" /\ ~IsNone(ret) /\ opt.datatype = "train"
       /\ LoadedStates.optimizer_type = opt.optimizer =>
           /\ model_state_dict(model) = LoadedStates.model
           /\ optimizer_state_dict(Val(optimizer)) = LoadedStates.optimizer

\* C2, amended: save(path) of a training agent writes its model state and
\* its optimizer state; a training agent then built from that file has the
\* model state of the file, and the optimizer state of the file when its
\* optimizer has the same name and as many trainable parameters as the
\* saved one (the same embedding_type fixing).
C2_RoundTripSameParams ==
    /\ SaveWritesStates
    /\ op = "__init__" /\ ~IsNone(ret) /\ opt.datatype = "train" =>
           /\ model_state_dict(model) = LoadedStates.model
           /\ LoadedStates.optimizer_type = opt.optimizer
              /\ LoadedStates.optimizer.param_groups.params = trainable(opt) =>
                  optimizer_state_dict(Val(optimizer)) = LoadedStates.optimizer

\* an agent built from the file of an agent that trained, with the same
\* optimizer and the same trainable parameters
C2_Witness ==
    /\ op = "__init__" /\ ret = Some("m") /\ opt.datatype = "train"
    /\ LoadedStates.optimizer_type = opt.optimizer
    /\ LoadedStates.optimizer.param_groups.params = trainable(opt)
    /\ LoadedStates.optimizer.state > 0
    /\ LoadedStates.model.weights > 0

\* what vectorize made of the batch handed to batch_act
Vectorized == vectorize(opt, arg.observations)

\* the replies batch_act starts from
EmptyReplies == Tup([p \in 1..Len(arg.observations) |-> ("id" :> AgentId)])

\* some observation of the batch is a valid example
HasValid == \E k \in 1..Len(arg.observations) : valid_example(arg.observations[k])

\* some observation of the batch has 'labels': a training batch
HasLabels == \E k \in 1..Len(arg.observations) : "labels" \in DOMAIN arg.observations[k]

\* the batch was handed to an agent that can run it: the environment raised
\* nothing during the call and a training batch met an optimizer
RanClean ==
    /\ arg.env.err = "none"
    /\ ~arg.env.buf_oom
    /\ HasLabels => ~IsNone(optimizer)

\* C3: a batch of valid examples without labels, handed to batch_act in
\* evaluation, is answered without an exception, and each valid example's
\* reply carries a generated text.
C3_PredictWithoutTargets ==
    op = "batch_act" /\ RanClean
    /\ ~IsNone(Vectorized.xs) /\ IsNone(Vectorized.ys) /\ ~Vectorized.is_training =>
        /\ exc = "none"
        /\ ~IsNone(ret)
        /\ \A i \in 1..Len(Val(Vectorized.valid_inds)) :
              "text" \in DOMAIN Val(ret)[Val(Vectorized.valid_inds)[i]]

\* C4: with rank_candidates set and a batch that is not a training batch,
\* whenever batch_act returns, the reply of every valid observation that
\* carries 'label_candidates' has 'text_candidates', a ranking of them.
C4_CandidatesRanked ==
    op = "batch_act" /\ RanClean /\ exc = "none"
    /\ opt.rank_candidates /\ ~IsNone(Vectorized.xs) /\ ~Vectorized.is_training =>
        \A i \in 1..Len(Val(Vectorized.valid_inds)) :
            "label_candidates" \in DOMAIN arg.observations[Val(Vectorized.valid_inds)[i]] =>
                /\ "text_candidates"
                       \in DOMAIN Val(ret)[Val(Vectorized.valid_inds)[i]]
                /\ {Val(ret)[Val(Vectorized.valid_inds)[i]]["text_candidates"][k]
                       : k \in 1..Len(Val(ret)[Val(Vectorized.valid_inds)[i]]
                                           ["text_candidates"])}
                   = {arg.observations[Val(Vectorized.valid_inds)[i]]["label_candidates"][k]
                       : k \in 1..Len(arg.observations[Val(Vectorized.valid_inds)[i]]
                                           ["label_candidates"])}

\* a training batch whose forward or backward pass ran out of memory
SkippedBatch ==
    /\ op = "batch_act"
    /\ arg.env.err \in {"oom_forward", "oom_backward"}
    /\ ~arg.env.buf_oom
    /\ HasValid /\ HasLabels
    /\ ~IsNone(optimizer)

\* C5: when the forward or the backward pass of a training batch runs out
\* of memory the batch is skipped: total_skipped_batches grows by exactly
\* 1, nothing is raised, no optimizer step is taken, and batch_act returns
\* replies that hold the agent's id and nothing else.
C5_OutOfMemorySkips ==
    [][SkippedBatch' =>
          /\ exc' = "none"
          /\ metrics'.total_skipped_batches = metrics.total_skipped_batches + 1
          /\ ret' = Some(EmptyReplies')
          /\ optimizer' = optimizer
          /\ model' = model]_vars

\* a batch skipped because the backward pass ran out of memory
C5_Witness ==
    /\ SkippedBatch
    /\ arg.env.err = "oom_backward"
    /\ exc = "none"
    /\ metrics.total_skipped_batches = 1
    /\ metrics.num_tokens > 0

\* C6: save() without a path writes the states at opt['model_file'] and the
\* options at that path + '.opt' when model_file is set, for any agent;
\* when model_file is not set it raises nothing.
C6_SaveWritesFiles ==
    op = "save" /\ IsNone(arg) =>
        /\ exc = "none"
        /\ Truthy(opt.model_file) =>
              /\ isfile(files, Val(opt.model_file))
              /\ files[Val(opt.model_file)].kind = "states"
              /\ isfile(files, Val(opt.model_file) \o ".opt")

\* the path shutdown() saves to
ShutdownPath == Val(opt.model_file) \o ".shutdown_state"

\* C7: shutdown() writes the agent's states at model_file +
\* '.shutdown_state' (and the options beside it) exactly when model_file is
\* not None and the agent has an optimizer; otherwise it writes nothing; no
\* other file, the model file among them, is written or removed.
C7_ShutdownSaves ==
    [][op' = "shutdown" =>
          /\ exc' = "none"
          /\ IF ~IsNone(opt.model_file) /\ ~IsNone(optimizer)
             THEN /\ isfile(files', ShutdownPath)
                  /\ files'[ShutdownPath] = [data |-> SavedStates, kind |-> "states"]
                  /\ isfile(files', ShutdownPath \o ".opt")
                  /\ \A q \in DOMAIN files' \ {ShutdownPath, ShutdownPath \o ".opt"} :
                        q \in DOMAIN files /\ files'[q] = files[q]
                  /\ DOMAIN files \subseteq DOMAIN files'
             ELSE files' = files]_vars

\* a training agent with a model file that exists has been shut down
C7_Witness ==
    /\ op = "shutdown"
    /\ opt.model_file = Some("m")
    /\ ~IsNone(optimizer)
    /\ isfile(files, "m")
    /\ isfile(files, "m.shutdown_state")

\* opt[key] names a file that exists
Exists(o, key) == Truthy(o[key]) /\ isfile(files, Val(o[key]))

\* C8: a new agent loads opt['model_file'] when that names an existing
\* file, else opt['init_model'] when that names an existing file, else
\* nothing; after a load its model has the states of the file and
\* opt['dict_file'] is the loaded path + '.dict' if that file exists or
\* dict_file was None, and is as given otherwise.
C8_InitialModel ==
    op = "__init__" =>
        /\ ret = IF Exists(arg, "model_file") THEN arg.model_file
                 ELSE IF Exists(arg, "init_model") THEN arg.init_model
                 ELSE None
        /\ ~IsNone(ret) => model_state_dict(model) = LoadedStates.model
        /\ opt.dict_file =
              IF ~IsNone(ret) /\ (isfile(files, Val(ret) \o ".dict") \/ IsNone(arg.dict_file))
              THEN Some(Val(ret) \o ".dict")
              ELSE arg.dict_file

\* an agent built with a model file and an initial model that both exist
C8_Witness ==
    /\ op = "__init__"
    /\ Exists(arg, "model_file") /\ Exists(arg, "init_model")
    /\ arg.model_file # arg.init_model
    /\ ret = arg.model_file
    /\ arg.dict_file = Some("d")
    /\ opt.dict_file = Some("m.dict")

\* C9: batch_act(observations), handed a batch it can run, returns one
\* reply per observation, each with the agent's id; when no observation is
\* a valid example the replies hold nothing else and the model, the
\* optimizer and the metrics are left as they were.
C9_BatchActReplies ==
    [][op' = "batch_act" /\ RanClean' =>
          /\ exc' = "none"
          /\ ~IsNone(ret')
          /\ Len(Val(ret')) = Len(arg'.observations)
          /\ \A p \in 1..Len(Val(ret')) : Val(ret')[p]["id"] = AgentId
          /\ ~HasValid' =>
                /\ ret' = Some(EmptyReplies')
                /\ model' = model /\ optimizer' = optimizer /\ metrics' = metrics]_vars

\* C10: after observe(observation) self.observation is the input with
\* 'text2vec' set, the caller's dict is as it was, answers[batch_idx] is
\* None and every other answer is unchanged; when the observation is
\* 'preprocessed' and has 'text2vec' the history is unchanged and text2vec
\* is the last `truncate` tokens of the one given.
C10_ObserveSaves ==
    [][op' = "observe" =>
          /\ observation' = Some(ret')
          /\ DOMAIN ret' = DOMAIN arg'.given \cup {"text2vec"}
          /\ \A k \in DOMAIN arg'.given \ {"text2vec"} : ret'[k] = arg'.given[k]
          /\ arg'.after = arg'.given
          /\ answers' = [answers EXCEPT ![batch_idx + 1] = None]
          /\ Get(arg'.given, "preprocessed", FALSE) /\ "text2vec" \in DOMAIN arg'.given =>
                /\ history' = history
                /\ ret'["text2vec"] = Deque(arg'.given["text2vec"], truncate(opt))
                /\ opt.truncate > 0 => Len(ret'["text2vec"]) <= opt.truncate]_vars

\* a preprocessed observation whose text2vec was cut to `truncate` tokens,
\* observed by an agent that had answered at its batch index
C10_Witness ==
    /\ op = "observe"
    /\ Get(arg.given, "preprocessed", FALSE) /\ "text2vec" \in DOMAIN arg.given
    /\ opt.truncate > 0
    /\ Len(arg.given["text2vec"]) > opt.truncate
    /\ Len(Val(observation)["text2vec"]) = opt.truncate
    /\ "dialog" \in DOMAIN history
    /\ \E i \in 1..Len(answers) : ~IsNone(answers[i])

\* the position of the first END_IDX of vec, Len(vec) + 1 when it has none
FirstEnd(vec) ==
    IF \A j \in 1..Len(vec) : vec[j] # END_IDX THEN Len(vec) + 1
    ELSE Least({j \in 1..Len(vec) : vec[j] = END_IDX})

\* C11: v2t(vec) is the text of the indices of vec that come before its
\* first END_IDX and are not START_IDX, in the order vec has them; what
\* stands at or after the first END_IDX is ignored, and a vec without
\* END_IDX is used whole but for its START_IDX entries.
C11_V2tUpToEnd ==
    op = "v2t" =>
        /\ ret = vec2txt(SelectSeq(SubSeq(arg, 1, FirstEnd(arg) - 1),
                                   LAMBDA x : x # START_IDX))
        /\ ret = v2t(SubSeq(arg, 1, FirstEnd(arg) - 1))
        /\ FirstEnd(arg) > Len(arg) =>
              ret = vec2txt(SelectSeq(arg, LAMBDA x : x # START_IDX))

\* a vec with a START_IDX and a word before its first END_IDX and a word
\* after it
C11_Witness ==
    /\ op = "v2t"
    /\ FirstEnd(arg) < Len(arg)
    /\ \E j \in 1..(FirstEnd(arg) - 1) : arg[j] = START_IDX
    /\ \E j \in 1..(FirstEnd(arg) - 1) : arg[j] > UNK_IDX
    /\ \E j \in (FirstEnd(arg) + 1)..Len(arg) : arg[j] > UNK_IDX
    /\ Len(ret) = 1

====
